---- MODULE Spec2Model ----
(***************************************************************************)
(* A model of autoname_functions.py: the Markov transition model, the      *)
(* collision-safe rename (safeName), the string-anchoring passes and the   *)
(* two propagation loops (main and tester), over a small IDA database.     *)
(*                                                                         *)
(* Names and string literals are sequences of one-character strings, so    *)
(* that prefix tests, regular expressions and slices are computed on       *)
(* characters as the Python code computes them.                            *)
(***************************************************************************)
EXTENDS Integers, Sequences, FiniteSets, TLC

VARIABLES
    names,          \* the database's name table: address -> name (<<>>: no name)
    renamesTotal,   \* Stats.renamesTotal
    audit,          \* the "old -> new" lines safeName prints, as <<old, new>> pairs
    call,           \* the latest safeName invocation: [n, addr, baseName, oldName]
    tried,          \* the names the latest safeName invocation gave to MakeNameEx
    commits,        \* the addresses safeName has named, in the order it named them
    names0,         \* the name table at the start of the run
    states,         \* MarkovModel.states: source -> [edges, transistions_total]
    kind,           \* the database: node index -> "func" | "data" | "string"
    text,           \* the database: node index -> the literal of a string node
    xrefs,          \* the database: the cross references, <<frm, to>> pairs
    pc,             \* where the run is
    error,          \* the exception that ended the run ("none" while it runs)
    functionsHash,  \* renameFunctionsBasedOnStrings: funcAddr -> link
    todo,           \* what the current loop has still to visit
    cur,            \* the source the tester loop is at, with its stale Thing
    changes,        \* the changes of the current pass
    iteration,      \* the variable iteration of main and of tester
    passes,         \* the passes of the propagation loop begun so far
    arg,            \* the argument of a function that is applied on its own
    ret             \* what that function returned (<<>> before the call)

vars == <<names, renamesTotal, audit, call, tried, commits, names0, states, kind, text, xrefs,
          pc, error, functionsHash, todo, cur, changes, iteration, passes,
          arg, ret>>

\* the database, which no pass changes but for its names
dbVars == <<kind, text, xrefs, names0>>
\* what safeName reads and writes
nameVars == <<names, renamesTotal, audit, call, tried, commits, error>>
\* the locals of the passes
runVars == <<states, functionsHash, todo, cur, changes, iteration, passes>>
runVarsButTodo == <<states, functionsHash, cur, changes, iteration, passes>>
\* the argument and the result of a function applied on its own
fnVars == <<arg, ret>>

(***************************************************************************)
(* Bounds of the model.                                                    *)
(***************************************************************************)
\* range(10000) of safeName, cut down: the suffixes are "", "0", ..
NumSuffixes == 1
\* safeName calls in the specification of safeName alone
MaxCalls == 2
\* addresses of the name table in the specification of safeName alone
NumAddrs == 3
\* addTransition calls in the specification of the Markov model
MaxTransitions == 5
\* state ids of the Markov model
NumIds == 3

(***************************************************************************)
(* Characters and strings.                                                 *)
(***************************************************************************)
Digits == <<"0", "1", "2", "3", "4", "5", "6", "7", "8", "9">>

\* Python's str(x) of a natural number
RECURSIVE Str(_)
Str(x) == IF x < 10 THEN <<Digits[x + 1]>>
          ELSE Str(x \div 10) \o <<Digits[(x % 10) + 1]>>

\* s.startswith(p)
StartsWith(s, p) == Len(p) <= Len(s) /\ SubSeq(s, 1, Len(p)) = p

\* s[k:]
SliceFrom(s, k) == SubSeq(s, k + 1, Len(s))

\* s[:k]
SliceTo(s, k) == IF Len(s) <= k THEN s ELSE SubSeq(s, 1, k)

(***************************************************************************)
(* The naming oracle.                                                      *)
(***************************************************************************)
\* BADPREFIXES_RE: ^(sub|loc|flt|off|unk|byte|word|dword)_
BAD_PREFIXES == { <<"s", "u", "b", "_">>, <<"l", "o", "c", "_">>,
                  <<"f", "l", "t", "_">>, <<"o", "f", "f", "_">>,
                  <<"u", "n", "k", "_">>, <<"b", "y", "t", "e", "_">>,
                  <<"w", "o", "r", "d", "_">>,
                  <<"d", "w", "o", "r", "d", "_">> }

BADPREFIXES_RE(name) == \E p \in BAD_PREFIXES : StartsWith(name, p)

\* AUTONAMED_RE: ^z.?_   ("." is any character but a newline)
AUTONAMED_RE(name) ==
    /\ Len(name) >= 2
    /\ name[1] = "z"
    /\ \/ name[2] = "_"
       \/ Len(name) >= 3 /\ name[2] # "\n" /\ name[3] = "_"

\* Thing.isNamed, of the name a Thing holds
isNamed(name) == name # <<>> /\ ~BADPREFIXES_RE(name)

stripExistingPrefix(name) ==
    IF AUTONAMED_RE(name) THEN SliceFrom(name, 2) ELSE name

\* "z_" + stripExistingPrefix(name): the name the propagation loops propose
PropagatedName(name) == <<"z", "_">> \o stripExistingPrefix(name)

(***************************************************************************)
(* safeName.  The backend is a record [names, renamesTotal, audit, tried,  *)
(* raised]; MakeNameEx is IDA's: it sets the name unless another address   *)
(* holds it, and returns 0 when it does not set it.                        *)
(***************************************************************************)
NameTaken(tbl, addr, newName) ==
    \E a \in DOMAIN tbl : a # addr /\ tbl[a] = newName

\* MakeNameEx setting the name whoever holds it
MakeNameEx_Overwrite(tbl, addr, newName) ==
    [ret |-> 1, names |-> [tbl EXCEPT ![addr] = newName]]

MakeNameEx(tbl, addr, newName) ==
    IF NameTaken(tbl, addr, newName)
    THEN [ret |-> 0, names |-> tbl]
    ELSE [ret |-> 1, names |-> [tbl EXCEPT ![addr] = newName]]

\* the suffixes without the bare name before them
Suffixes_NoBare == [x \in 1..NumSuffixes |-> Str(x - 1)]

\* [""] + [str(x) for x in range(NumSuffixes)]
Suffixes == <<<<>>>> \o [x \in 1..NumSuffixes |-> Str(x - 1)]

\* the for loop of safeName returning after its last suffix, without the raise
RECURSIVE safeNameLoop_NoRaise(_, _, _, _, _)
safeNameLoop_NoRaise(b, addr, baseName, oldName, i) ==
    IF i > Len(Suffixes)
    THEN b
    ELSE LET newName == baseName \o Suffixes[i]
             r == MakeNameEx(b.names, addr, newName)
             b1 == [b EXCEPT !.tried = Append(@, newName)]
         IN  IF r.ret # 0
             THEN [b1 EXCEPT !.names = r.names,
                             !.audit = Append(@, <<oldName, newName>>)]
             ELSE safeNameLoop_NoRaise(b1, addr, baseName, oldName, i + 1)

\* the for loop of safeName from its i-th suffix on, and the raise after it
RECURSIVE safeNameLoop(_, _, _, _, _)
safeNameLoop(b, addr, baseName, oldName, i) ==
    IF i > Len(Suffixes)
    THEN [b EXCEPT !.raised = TRUE]
    ELSE LET newName == baseName \o Suffixes[i]
             r == MakeNameEx(b.names, addr, newName)
             b1 == [b EXCEPT !.tried = Append(@, newName)]
         IN  IF r.ret # 0
             THEN [b1 EXCEPT !.names = r.names,
                             !.audit = Append(@, <<oldName, newName>>)]
             ELSE safeNameLoop(b1, addr, baseName, oldName, i + 1)

\* safeName testing only oldName == baseName
safeName_EqualOnly(b, addr, baseName, oldName) ==
    LET b0 == [b EXCEPT !.tried = <<>>]
    IN  IF oldName = baseName
        THEN b0
        ELSE safeNameLoop([b0 EXCEPT !.renamesTotal = @ + 1],
                          addr, baseName, oldName, 1)

safeName(b, addr, baseName, oldName) ==
    LET b0 == [b EXCEPT !.tried = <<>>]
    IN  IF oldName = baseName \/ StartsWith(oldName, baseName)
        THEN b0
        ELSE safeNameLoop([b0 EXCEPT !.renamesTotal = @ + 1],
                          addr, baseName, oldName, 1)

Backend == [names |-> names, renamesTotal |-> renamesTotal, audit |-> audit,
            tried |-> tried, raised |-> FALSE]

\* A call of safeName from the run: the backend after it, and the exception
\* of line 140 ending the run; nextpc is where the caller goes on otherwise.
Rename(addr, baseName, oldName, nextpc) ==
    LET r == safeName(Backend, addr, baseName, oldName)
    IN  /\ names' = r.names
        /\ renamesTotal' = r.renamesTotal
        /\ audit' = r.audit
        /\ tried' = r.tried
        /\ commits' = IF Len(r.audit) > Len(audit) THEN Append(commits, addr)
                      ELSE commits
        /\ call' = [n |-> call.n + 1, addr |-> addr, baseName |-> baseName,
                    oldName |-> oldName]
        /\ error' = IF r.raised THEN "RenameFailed" ELSE error
        /\ pc' = IF r.raised THEN "aborted" ELSE nextpc

Raises(addr, baseName, oldName) ==
    safeName(Backend, addr, baseName, oldName).raised

NoCall == [n |-> 0, addr |-> 0, baseName |-> <<>>, oldName |-> <<>>]

(***************************************************************************)
(* The Markov model.  A weight is the fraction <<edges[to], total>>, and   *)
(* the cutoff 0.5 the fraction <<1, 2>>: the comparison of line 49 is      *)
(* exact on them, as it is on the doubles of the code for these counts.    *)
(***************************************************************************)
\* a cutoff of one third in place of 0.5
PROBABILITY_CUTTOFF_Third == <<1, 3>>

PROBABILITY_CUTTOFF == <<1, 2>>

FracLess(p, q) == p[1] * q[2] < q[1] * p[2]

\* MarkovState.__init__
MarkovState == [edges |-> <<>>, transistions_total |-> 0]

\* d with key k set to v (a Python dict assignment)
DictSet(d, k, v) ==
    [x \in DOMAIN d \cup {k} |-> IF x = k THEN v ELSE d[x]]

\* d with key k deleted
DictDel(d, k) == [x \in DOMAIN d \ {k} |-> d[x]]

\* addTransition with "= 1" for "+= 1" on the edge
StateAddTransition_Assign(st, toStateID) ==
    [edges |-> DictSet(st.edges, toStateID, 1),
     transistions_total |-> st.transistions_total + 1]

\* MarkovState.addTransition
StateAddTransition(st, toStateID) ==
    LET e0 == IF toStateID \in DOMAIN st.edges THEN st.edges
              ELSE DictSet(st.edges, toStateID, 0)
    IN  [edges |-> [e0 EXCEPT ![toStateID] = @ + 1],
         transistions_total |-> st.transistions_total + 1]

\* MarkovModel.addTransition
addTransition(model, fromStateID, toStateID) ==
    LET m0 == IF fromStateID \in DOMAIN model THEN model
              ELSE DictSet(model, fromStateID, MarkovState)
    IN  [m0 EXCEPT ![fromStateID] = StateAddTransition(@, toStateID)]

\* MarkovState.weight
weight(st, toStateID) == <<st.edges[toStateID], st.transistions_total>>

\* the cullList with "<=" for "<"
cullList_Inclusive(source, cutoffWeight) ==
    {destID \in DOMAIN source.edges :
        ~FracLess(cutoffWeight, weight(source, destID))}

\* the destinations lines 48-50 put on the cullList of a source
cullList(source, cutoffWeight) ==
    {destID \in DOMAIN source.edges :
        FracLess(weight(source, destID), cutoffWeight)}

\* MarkovModel.cull
cull(model, cutoffWeight) ==
    [sourceID \in DOMAIN model |->
        [model[sourceID] EXCEPT
            !.edges = [d \in DOMAIN @ \ cullList(model[sourceID], cutoffWeight)
                         |-> @[d]]]]

(***************************************************************************)
(* sanitizeString.  re.sub scans from the left and replaces each match;    *)
(* the three patterns are matched on characters as re matches them.        *)
(***************************************************************************)
Lower == {"a", "b", "c", "d", "e", "f", "g", "h", "i", "j", "k", "l", "m",
          "n", "o", "p", "q", "r", "s", "t", "u", "v", "w", "x", "y", "z"}
Upper == {"A", "B", "C", "D", "E", "F", "G", "H", "I", "J", "K", "L", "M",
          "N", "O", "P", "Q", "R", "S", "T", "U", "V", "W", "X", "Y", "Z"}
DigitChars == {Digits[i] : i \in 1..10}

\* [a-zA-Z0-9_]
WordChars == Lower \cup Upper \cup DigitChars \cup {"_"}
\* [\+ -#0]: "+", the range from " " to "#", and "0"
FlagChars == {"+", " ", "!", "\"", "#", "0"}
\* [\d\.]
WidthChars == DigitChars \cup {"."}
\* [lhLzjt]
LengthChars == {"l", "h", "L", "z", "j", "t"}
\* [diufFeEgGxXoscpaAn]
ConvChars == {"d", "i", "u", "f", "F", "e", "E", "g", "G", "x", "X", "o", "s",
              "c", "p", "a", "A", "n"}

\* the least of the indices J from i on, Len(s) + 1 (or i beyond it) when
\* there is none
FirstOf(s, i, J) ==
    IF J # {} THEN CHOOSE j \in J : \A k \in J : j <= k
    ELSE IF i > Len(s) THEN i ELSE Len(s) + 1

\* the first index from i on whose character is not in C
SkipWhile(s, i, C) == FirstOf(s, i, {j \in i..Len(s) : s[j] \notin C})

\* the first index from i on whose character is in C
NextIn(s, i, C) == FirstOf(s, i, {j \in i..Len(s) : s[j] \in C})

\* The index where a match of %[\+ -#0]*[\d\.]*[lhLzjt]{0,2}[diufFeEgGxXoscpaAn]
\* starting at i ends, 0 when there is none.  The starred classes are greedy,
\* and giving a character back never helps: the only character two classes
\* share is "0" (a flag and a digit), which leaves the end where it was.
FormatEnd(s, i) ==
    IF s[i] # "%" THEN 0
    ELSE LET k == SkipWhile(s, SkipWhile(s, i + 1, FlagChars), WidthChars)
             ok(n) == /\ k + n <= Len(s)
                      /\ \A j \in k..(k + n - 1) : s[j] \in LengthChars
                      /\ s[k + n] \in ConvChars
         IN  IF ok(2) THEN k + 2 ELSE IF ok(1) THEN k + 1
             ELSE IF ok(0) THEN k ELSE 0

\* re.sub(the format pattern, '_', s) from index i on: a match is
\* replaced, and what is no match is copied up to the next "%", where the
\* next match may start
RECURSIVE SubFormats(_, _)
SubFormats(s, i) ==
    IF i > Len(s) THEN <<>>
    ELSE LET e == FormatEnd(s, i)
             k == NextIn(s, i + 1, {"%"})
         IN  IF e # 0 THEN <<"_">> \o SubFormats(s, e + 1)
             ELSE SubSeq(s, i, k - 1) \o SubFormats(s, k)

\* the first index from i on whose character is a word character
SkipNonWord(s, i) == NextIn(s, i, WordChars)

\* re.sub(r'[^a-zA-Z0-9_]+', '_', s) from index i on: a run of other
\* characters is replaced, a run of word characters copied
RECURSIVE SubNonWord(_, _)
SubNonWord(s, i) ==
    IF i > Len(s) THEN <<>>
    ELSE IF s[i] \notin WordChars
         THEN <<"_">> \o SubNonWord(s, SkipNonWord(s, i))
         ELSE LET k == SkipWhile(s, i, WordChars)
              IN  SubSeq(s, i, k - 1) \o SubNonWord(s, k)

\* re.sub(r'_+', '_', s) from index i on: a run of underscores is
\* replaced, what lies before the next underscore copied
RECURSIVE SubUnderscores(_, _)
SubUnderscores(s, i) ==
    IF i > Len(s) THEN <<>>
    ELSE IF s[i] = "_"
         THEN <<"_">> \o SubUnderscores(s, SkipWhile(s, i, {"_"}))
         ELSE LET k == NextIn(s, i + 1, {"_"})
              IN  SubSeq(s, i, k - 1) \o SubUnderscores(s, k)

\* s.strip(C)
RECURSIVE StripChars(_, _)
StripChars(s, C) ==
    IF s = <<>> THEN s
    ELSE IF s[1] \in C THEN StripChars(Tail(s), C)
    ELSE IF s[Len(s)] \in C THEN StripChars(SubSeq(s, 1, Len(s) - 1), C)
    ELSE s

\* sanitizeString without the re.sub of line 286
sanitizeString_NoCollapse(s) ==
    LET r1 == SubFormats(s, 1)
        r2 == SubNonWord(r1, 1)
    IN  StripChars(r2, {"_"})

sanitizeString(s) ==
    LET r1 == SubFormats(s, 1)
        r2 == SubNonWord(r1, 1)
        r3 == SubUnderscores(r2, 1)
    IN  StripChars(r3, {"_"})

\* str.strip(): the whitespace a literal may hold
Whitespace == {" ", "\t", "\n"}

(***************************************************************************)
(* What every specification starts from outside the part it is about.      *)
(***************************************************************************)
InitBackend ==
    /\ renamesTotal = 0
    /\ audit = <<>>
    /\ call = NoCall
    /\ tried = <<>>
    /\ commits = <<>>
    /\ names0 = names
    /\ error = "none"

InitRun ==
    /\ states = <<>>
    /\ functionsHash = <<>>
    /\ todo = {}
    /\ cur = <<>>
    /\ changes = 0
    /\ iteration = 0
    /\ passes = 0

NoDatabase ==
    /\ kind = <<>>
    /\ text = <<>>
    /\ xrefs = {}

\* no function is applied on its own
NoFunction ==
    /\ arg = <<>>
    /\ ret = <<>>

\* no two addresses hold the same name (IDA keeps the names of a database unique)
DistinctNames(tbl) ==
    \A a, b \in DOMAIN tbl : a # b /\ tbl[a] # <<>> => tbl[a] # tbl[b]

(***************************************************************************)
(* SpecSafeName: safeName alone, called with any address, any of a few     *)
(* base names, and as old name the name of the address or the name it had  *)
(* at first (the tester loop hands safeName the name a Thing read earlier).*)
(***************************************************************************)
SubName(a) == <<"s", "u", "b", "_">> \o Str(a)

FirstNames(a) == { SubName(a), <<"m">>, <<"z", "_", "m">>, <<>> }

BaseNames == { <<"z", "_", "m">>, <<"z", "_", "n">> }

InitSafeName ==
    /\ names \in {t \in [1..NumAddrs -> UNION {FirstNames(a) : a \in 1..NumAddrs}] :
                    /\ \A a \in 1..NumAddrs : t[a] \in FirstNames(a)
                    /\ DistinctNames(t)}
    /\ pc = "safeName"
    /\ InitBackend
    /\ InitRun
    /\ NoDatabase
    /\ NoFunction

SafeNameCall ==
    /\ pc = "safeName"
    /\ call.n < MaxCalls
    /\ \E addr \in DOMAIN names, baseName \in BaseNames :
         \E oldName \in {names[addr], SubName(addr)} :
            Rename(addr, baseName, oldName, "safeName")
    /\ UNCHANGED <<fnVars, dbVars, runVars>>

NextSafeName == SafeNameCall

SpecSafeName == InitSafeName /\ [][NextSafeName]_vars

(***************************************************************************)
(* SpecMarkov: a MarkovModel built by addTransition calls, then culled at  *)
(* PROBABILITY_CUTTOFF as buildMarkovModel culls it.                       *)
(***************************************************************************)
RECURSIVE SumOver(_, _)
SumOver(f, S) ==
    IF S = {} THEN 0
    ELSE LET x == CHOOSE y \in S : TRUE IN f[x] + SumOver(f, S \ {x})

TransitionsAdded ==
    SumOver([s \in DOMAIN states |-> states[s].transistions_total], DOMAIN states)

InitMarkov ==
    /\ names = <<>>
    /\ pc = "markov"
    /\ InitBackend
    /\ InitRun
    /\ NoDatabase
    /\ NoFunction

AddTransition ==
    /\ pc = "markov"
    /\ TransitionsAdded < MaxTransitions
    /\ \E fromStateID, toStateID \in 1..NumIds :
          states' = addTransition(states, fromStateID, toStateID)
    /\ UNCHANGED <<fnVars, dbVars, nameVars, pc, functionsHash, todo, cur, changes,
                   iteration, passes>>

Cull ==
    /\ pc = "markov"
    /\ states' = cull(states, PROBABILITY_CUTTOFF)
    /\ pc' = "culled"
    /\ UNCHANGED <<fnVars, dbVars, nameVars, functionsHash, todo, cur, changes,
                   iteration, passes>>

NextMarkov == AddTransition \/ Cull

SpecMarkov == InitMarkov /\ [][NextMarkov]_vars

(***************************************************************************)
(* The database.  Node i starts at address NodeStride * i.  A function     *)
(* holds FuncSize one-address instructions; a string literal is a data     *)
(* item.  Only the start of a node has a name.  The functions lie in the   *)
(* CODE segment, data and string literals in a segment of another class.   *)
(***************************************************************************)
\* the addresses between the starts of two nodes
NodeStride == 4
\* the instructions of a function
FuncSize == 2
\* self.endEA = addr + 4 of a Thing that is no function
DataSize == 4
\* newName[:256] of fixupIdaStringNames
MaxNameLen == 256

Nodes == DOMAIN kind
AddrOf(i) == NodeStride * i
NodeAddrs == {AddrOf(i) : i \in Nodes}
NodeAt(addr) == CHOOSE i \in Nodes : AddrOf(i) = addr

\* get_func(addr): the function holding addr, as [startEA, endEA]; <<>>: None
get_func(addr) ==
    LET fs == {i \in Nodes : /\ kind[i] = "func"
                             /\ AddrOf(i) <= addr
                             /\ addr < AddrOf(i) + FuncSize}
    IN  IF fs = {} THEN <<>>
        ELSE LET i == CHOOSE j \in fs : TRUE
             IN  [startEA |-> AddrOf(i), endEA |-> AddrOf(i) + FuncSize]

\* Name(addr)
Name(addr) == IF addr \in DOMAIN names THEN names[addr] ELSE <<>>

\* Demangle(name, INF_LONG_DN): no name of the database is a mangled one
Demangle(name) == <<>>

\* Thing.__init__
Thing(addr) ==
    LET funcAddr == get_func(addr)
        a == IF funcAddr # <<>> THEN funcAddr.startEA ELSE addr
        testName == Demangle(Name(a))
    IN  [addr |-> a,
         endEA |-> IF funcAddr # <<>> THEN funcAddr.endEA ELSE addr + DataSize,
         isFunction |-> funcAddr # <<>>,
         name |-> IF testName # <<>> THEN testName ELSE Name(a)]

\* FuncItems(addr)
FuncItems(addr) == addr..(addr + FuncSize - 1)

\* XrefsFrom(fromAddr, 0), as the targets
XrefsFrom(fromAddr) == {x[2] : x \in {y \in xrefs : y[1] = fromAddr}}

\* XrefsTo(ea, 0), as the referencing addresses
XrefsTo(ea) == {x[1] : x \in {y \in xrefs : y[2] = ea}}

\* Thing.getXrefs
getXrefs(thing) ==
    LET fromAddrs == IF thing.isFunction THEN FuncItems(thing.addr)
                     ELSE {thing.addr}
    IN  {to \in UNION {XrefsFrom(fromAddr) : fromAddr \in fromAddrs} :
            to < thing.addr \/ to > thing.endEA}

\* Heads of the segments whose class is not CODE
DataHeads == {AddrOf(i) : i \in {j \in Nodes : kind[j] # "func"}}

\* Functions()
Functions == {AddrOf(i) : i \in {j \in Nodes : kind[j] = "func"}}

\* Strings(): the addresses of the string literals
Strings == {AddrOf(i) : i \in {j \in Nodes : kind[j] = "string"}}

\* str(s) of the string literal at ea
StrOf(ea) == text[NodeAt(ea)]

Min(S) == CHOOSE x \in S : \A y \in S : x <= y

(***************************************************************************)
(* The names a database holds at first: IDA's placeholders (sub_, unk_),   *)
(* IDA's names of string literals (a..), and the names a user or an        *)
(* earlier run of the script gave: m, z_m, z_m0, ..                        *)
(***************************************************************************)
UnkName(a) == <<"u", "n", "k", "_">> \o Str(a)
LiteralName(a) == <<"a">> \o Str(a)
GivenName(i) ==
    IF i = 1 THEN <<"m">>
    ELSE IF i = 2 THEN <<"z", "_", "m">>
    ELSE <<"z", "_", "m">> \o Str(i - 3)

FirstNamesOf(k, i) ==
    IF k = "func" THEN {SubName(AddrOf(i)), GivenName(i)}
    ELSE IF k = "data" THEN {UnkName(AddrOf(i)), GivenName(i)}
    ELSE {LiteralName(AddrOf(i))}

\* the literals of the database
Texts == { <<"m">>, <<"n", " ", "%", "d">> }

(***************************************************************************)
(* The string passes: fixupIdaStringNames, renameFunctionsBasedOnStrings.  *)
(* fixupIdaStringNames visits the literals by address; the order in which  *)
(* the literals are processed and the order of functionsHash.keys() are    *)
(* left open.  Every literal decodes (line 336 is never None).             *)
(***************************************************************************)
\* the string passes naming with a placeholder prefix in place of z_
Z_Placeholder == <<"s", "u", "b", "_">>

Z_ == <<"z", "_">>
SUB_ == <<"s", "u", "b", "_">>

\* one literal of fixupIdaStringNames (lines 353-358)
FixupString ==
    /\ pc = "fixup"
    /\ todo # {}
    /\ LET ea == Min(todo)
           name == Name(ea)
           newName == SliceTo(Z_ \o sanitizeString(StrOf(ea)), MaxNameLen)
       IN  IF name # <<>> /\ ~StartsWith(name, Z_)
           THEN /\ Rename(ea, newName, name, "fixup")
                /\ todo' = IF Raises(ea, newName, name) THEN todo
                           ELSE todo \ {ea}
           ELSE /\ todo' = todo \ {ea}
                /\ UNCHANGED <<nameVars, pc>>
    /\ UNCHANGED <<fnVars, dbVars, states, functionsHash, cur, changes, iteration,
                   passes>>

\* fixupIdaStringNames returns; renameFunctionsBasedOnStrings begins
FixupDone ==
    /\ pc = "fixup"
    /\ todo = {}
    /\ pc' = "collect"
    /\ todo' = Strings
    /\ functionsHash' = <<>>
    /\ UNCHANGED <<fnVars, dbVars, nameVars, states, cur, changes, iteration, passes>>

\* the links of lines 297-306: one per reference from a function whose name
\* starts with sub_ or z_
LinksOf(ea) ==
    LET string == StripChars(StrOf(ea), Whitespace)
        qualifies(refAddr) ==
            LET func == get_func(refAddr)
            IN  /\ func # <<>>
                /\ \/ StartsWith(Name(func.startEA), SUB_)
                   \/ StartsWith(Name(func.startEA), Z_)
    IN  {<<get_func(refAddr).startEA, refAddr, string>> :
            refAddr \in {r \in XrefsTo(ea) : qualifies(r)}}

\* lines 309-319 keeping the later reference ("<" turned round)
KeepLink_Highest(hash, link) ==
    LET funcAddr == link[1]
        lastLink == IF funcAddr \in DOMAIN hash THEN hash[funcAddr] ELSE link
        h1 == IF funcAddr \in DOMAIN hash THEN hash
              ELSE DictSet(hash, funcAddr, link)
    IN  IF link[2] > lastLink[2] THEN DictSet(h1, funcAddr, link) ELSE h1

\* lines 310-319: the link is stored for its function if the function has
\* none yet, or has one of a higher referencing address
KeepLink(hash, link) ==
    LET funcAddr == link[1]
        lastLink == IF funcAddr \in DOMAIN hash THEN hash[funcAddr] ELSE link
        h1 == IF funcAddr \in DOMAIN hash THEN hash
              ELSE DictSet(hash, funcAddr, link)
    IN  IF link[2] < lastLink[2] THEN DictSet(h1, funcAddr, link) ELSE h1

\* processStringXrefs(item, functionsHash): the functionsHash after it
processStringXrefs(ea, hash) ==
    LET links == LinksOf(ea)
    IN  IF Cardinality(links) = 1
        THEN KeepLink(hash, CHOOSE l \in links : TRUE)
        ELSE hash

\* one literal of the loop of lines 335-339
ProcessString ==
    /\ pc = "collect"
    /\ \E ea \in todo :
          /\ functionsHash' = processStringXrefs(ea, functionsHash)
          /\ todo' = todo \ {ea}
    /\ UNCHANGED <<fnVars, dbVars, nameVars, pc, states, cur, changes, iteration,
                   passes>>

\* the loop of lines 335-339 is over
CollectDone ==
    /\ pc = "collect"
    /\ todo = {}
    /\ pc' = "apply"
    /\ todo' = DOMAIN functionsHash
    /\ UNCHANGED <<fnVars, dbVars, nameVars, states, functionsHash, cur, changes,
                   iteration, passes>>

\* one function of the loop of lines 341-347
ApplyStringName ==
    /\ pc = "apply"
    /\ \E funcAddr \in todo :
          LET link == functionsHash[funcAddr]
              oldName == Name(funcAddr)
              newName == Z_ \o sanitizeString(link[3])
          IN  /\ Rename(funcAddr, newName, oldName, "apply")
              /\ todo' = IF Raises(funcAddr, newName, oldName) THEN todo
                         ELSE todo \ {funcAddr}
    /\ UNCHANGED <<fnVars, dbVars, states, functionsHash, cur, changes, iteration,
                   passes>>

\* renameFunctionsBasedOnStrings returns
ApplyDone ==
    /\ pc = "apply"
    /\ todo = {}
    /\ pc' = "propagate"
    /\ UNCHANGED <<fnVars, dbVars, nameVars, runVars>>

(***************************************************************************)
(* tester: buildMarkovModel and the loop of lines 403-419.  The order of   *)
(* markovModel.states and of source.edges (two dicts) is left open.        *)
(***************************************************************************)
\* the nodes buildMarkovModel takes as sources (lines 374 and 384)
MarkovSources ==
    {a \in DataHeads : LET thing == Thing(a)
                       IN  /\ ~thing.isFunction
                           /\ thing.name # <<>>
                           /\ ~isNamed(thing.name)}
    \cup {a \in Functions : ~isNamed(Thing(a).name)}

RECURSIVE AddAll(_, _)
AddAll(model, pairs) ==
    IF pairs = {} THEN model
    ELSE LET p == CHOOSE q \in pairs : TRUE
         IN  AddAll(addTransition(model, p[1], p[2]), pairs \ {p})

buildMarkovModel ==
    LET pairs == UNION {{<<Thing(a).addr, x>> : x \in getXrefs(Thing(a))} :
                          a \in MarkovSources}
    IN  cull(AddAll(<<>>, pairs), PROBABILITY_CUTTOFF)

NoSource == <<>>

\* lines 399-402
BuildMarkovModel ==
    /\ pc = "propagate"
    /\ states' = buildMarkovModel
    /\ changes' = 1
    /\ iteration' = 0
    /\ pc' = "loop"
    /\ UNCHANGED <<fnVars, dbVars, nameVars, functionsHash, todo, cur, passes>>

\* the while loop of line 403 left without a pass
TesterLoop_NoPass ==
    /\ pc = "loop"
    /\ pc' = "done"
    /\ UNCHANGED <<fnVars, dbVars, nameVars, runVars>>

\* the test of the while loop, line 403, and lines 404-405
TesterLoop ==
    /\ pc = "loop"
    /\ IF changes > 0
       THEN /\ changes' = 0
            /\ todo' = DOMAIN states
            /\ passes' = passes + 1
            /\ pc' = "pass"
       ELSE /\ pc' = "done"
            /\ UNCHANGED <<changes, todo, passes>>
    /\ UNCHANGED <<fnVars, dbVars, nameVars, states, functionsHash, cur, iteration>>

\* lines 406-411: the next source, and its Thing
TesterSource ==
    /\ pc = "pass"
    /\ cur = NoSource
    /\ \E sourceID \in todo :
          LET sourceThing == Thing(sourceID)
              edges == DOMAIN states[sourceID].edges
          IN  /\ todo' = todo \ {sourceID}
              /\ cur' = IF isNamed(sourceThing.name) \/ edges = {}
                        THEN NoSource
                        ELSE [thing |-> sourceThing, edges |-> edges]
    /\ UNCHANGED <<fnVars, dbVars, nameVars, pc, states, functionsHash, changes,
                   iteration, passes>>

\* lines 412-418: the next edge of the source
TesterEdge ==
    /\ pc = "pass"
    /\ cur # NoSource
    /\ \E destID \in cur.edges :
          LET destThing == Thing(destID)
              rest == cur.edges \ {destID}
              next == IF rest = {} THEN NoSource ELSE [cur EXCEPT !.edges = rest]
              newName == PropagatedName(destThing.name)
          IN  IF isNamed(destThing.name)
              THEN /\ Rename(cur.thing.addr, newName, cur.thing.name, "pass")
                   /\ IF Raises(cur.thing.addr, newName, cur.thing.name)
                      THEN UNCHANGED <<cur, changes>>
                      ELSE cur' = next /\ changes' = changes + 1
              ELSE /\ cur' = next
                   /\ UNCHANGED <<nameVars, pc, changes>>
    /\ UNCHANGED <<fnVars, dbVars, states, functionsHash, todo, iteration, passes>>

\* the for loop of line 406 is over (line 419)
TesterPassEnd ==
    /\ pc = "pass"
    /\ cur = NoSource
    /\ todo = {}
    /\ pc' = "loop"
    /\ UNCHANGED <<fnVars, dbVars, nameVars, runVars>>

(***************************************************************************)
(* main: the loop of lines 433-440 over renameData and renameFunctions.    *)
(* Both call thing.xrefsFrom(), a method class Thing does not define (its  *)
(* definition, lines 169-172, is commented out): the call raises           *)
(* AttributeError, so lines 235-241 and 256-262 are never reached.         *)
(***************************************************************************)
\* lines 431-432
MainStart ==
    /\ pc = "propagate"
    /\ changes' = 1
    /\ iteration' = 0
    /\ pc' = "mainloop"
    /\ UNCHANGED <<fnVars, dbVars, nameVars, states, functionsHash, todo, cur, passes>>

\* the test of the while loop, line 433, and lines 434-437
MainLoop ==
    /\ pc = "mainloop"
    /\ IF changes > 0
       THEN /\ iteration' = iteration + 1
            /\ passes' = passes + 1
            /\ changes' = 0
            /\ todo' = DataHeads
            /\ pc' = "data"
       ELSE /\ pc' = "done"
            /\ UNCHANGED <<iteration, passes, changes, todo>>
    /\ UNCHANGED <<fnVars, dbVars, nameVars, states, functionsHash, cur>>

\* renameData: one head of the loop of line 231 (lines 232-234)
RenameDataHead ==
    /\ pc = "data"
    /\ todo # {}
    /\ LET thing == Thing(Min(todo))
       IN  IF ~thing.isFunction /\ thing.name # <<>> /\ ~isNamed(thing.name)
           THEN /\ pc' = "aborted"
                /\ error' = "AttributeError"
                /\ UNCHANGED todo
           ELSE /\ todo' = todo \ {Min(todo)}
                /\ UNCHANGED <<pc, error>>
    /\ UNCHANGED <<fnVars, dbVars, names, renamesTotal, audit, call, tried, commits,
                   runVarsButTodo>>

\* renameData returns its changes (0); renameFunctions begins (lines 242, 439)
RenameDataDone ==
    /\ pc = "data"
    /\ todo = {}
    /\ pc' = "funcs"
    /\ todo' = Functions
    /\ UNCHANGED <<fnVars, dbVars, nameVars, states, functionsHash, cur, changes,
                   iteration, passes>>

\* renameFunctions: one function of the loop of line 251 (lines 252-255)
RenameFunctionsFunc ==
    /\ pc = "funcs"
    /\ todo # {}
    /\ LET func == Thing(Min(todo))
       IN  IF ~isNamed(func.name)
           THEN /\ pc' = "aborted"
                /\ error' = "AttributeError"
                /\ UNCHANGED todo
           ELSE /\ todo' = todo \ {Min(todo)}
                /\ UNCHANGED <<pc, error>>
    /\ UNCHANGED <<fnVars, dbVars, names, renamesTotal, audit, call, tried, commits,
                   runVarsButTodo>>

\* renameFunctions returns its changes (0) (lines 263, 439-440)
RenameFunctionsDone ==
    /\ pc = "funcs"
    /\ todo = {}
    /\ pc' = "mainloop"
    /\ UNCHANGED <<fnVars, dbVars, nameVars, runVars>>

(***************************************************************************)
(* The databases the runs start from.                                      *)
(***************************************************************************)
\* functions and data items of the databases of SpecTester and SpecMain
NumNodes == 2
\* string literals of those databases, after the functions and data items
NumStrs == 1
\* cross references of those databases
MaxXrefs == 2
\* functions, string literals and cross references of the databases of
\* SpecStrings
NumStrFuncs == 1
NumStrLits == 2
MaxStrXrefs == 2

\* the subsets of S of at most k elements
RECURSIVE UpTo(_, _)
UpTo(S, k) ==
    IF k = 0 THEN {{}}
    ELSE LET smaller == UpTo(S, k - 1)
         IN  smaller \cup {X \cup {e} : X \in smaller, e \in S}

\* a database of n functions or data items (of the kinds ks) followed by m
\* string literals, each node under one of its first names
InitNodes(n, m, ks) ==
    /\ kind \in {k \in [1..(n + m) -> ks \cup {"string"}] :
                   \A i \in 1..(n + m) : (k[i] = "string") <=> (i > n)}
    /\ text \in {t \in [1..(n + m) -> Texts \cup {<<>>}] :
                   \A i \in 1..(n + m) : (t[i] = <<>>) <=> (i <= n)}
    /\ names \in {t \in [NodeAddrs -> UNION {FirstNamesOf(kind[i], i) : i \in Nodes}] :
                    \A i \in Nodes : t[AddrOf(i)] \in FirstNamesOf(kind[i], i)}

InitPasses ==
    /\ pc = "fixup"
    /\ todo = Strings
    /\ states = <<>>
    /\ functionsHash = <<>>
    /\ cur = NoSource
    /\ changes = 0
    /\ iteration = 0
    /\ passes = 0
    /\ InitBackend
    /\ NoFunction

\* Databases of the propagation runs.  The references leave from the start
\* of a node: which instruction of a function holds a reference makes no
\* difference to getXrefs.
InitTester ==
    /\ InitNodes(NumNodes, NumStrs, {"func", "data"})
    /\ xrefs \in UpTo({AddrOf(i) : i \in 1..NumNodes} \X NodeAddrs, MaxXrefs)
    /\ InitPasses

\* Databases of the string passes: functions, unnamed or named by an
\* earlier run, whose instructions refer to string literals.
InitStrings ==
    /\ InitNodes(NumStrFuncs, NumStrLits, {"func"})
    /\ xrefs \in UpTo((UNION {FuncItems(a) : a \in Functions}) \X Strings,
                      MaxStrXrefs)
    /\ InitPasses

NextStrings ==
    \/ FixupString \/ FixupDone
    \/ ProcessString \/ CollectDone
    \/ ApplyStringName \/ ApplyDone

\* tester()
NextTester ==
    \/ NextStrings
    \/ BuildMarkovModel \/ TesterLoop \/ TesterSource \/ TesterEdge
    \/ TesterPassEnd

\* main()
NextMain ==
    \/ NextStrings
    \/ MainStart \/ MainLoop
    \/ RenameDataHead \/ RenameDataDone
    \/ RenameFunctionsFunc \/ RenameFunctionsDone

\* the two string passes, with which main and tester both begin
SpecStrings == InitStrings /\ [][NextStrings]_vars

SpecTester == InitTester /\ [][NextTester]_vars

\* the steps of tester from buildMarkovModel on (lines 399-419)
TesterLoopSteps ==
    \/ BuildMarkovModel \/ TesterLoop \/ TesterSource \/ TesterEdge
    \/ TesterPassEnd

\* the steps of the while loop of tester (lines 403-419)
TesterWhileSteps ==
    TesterLoop \/ TesterSource \/ TesterEdge \/ TesterPassEnd

\* the state in which tester calls buildMarkovModel when the string passes
\* found nothing to do
AtPropagation ==
    /\ pc = "propagate"
    /\ todo = {}
    /\ states = <<>>
    /\ functionsHash = <<>>
    /\ cur = NoSource
    /\ changes = 0
    /\ iteration = 0
    /\ passes = 0
    /\ InitBackend
    /\ NoFunction

\* functions, data items and cross references of the databases of
\* SpecLoopFair
NumLoopNodes == 2
MaxLoopXrefs == 2

\* Databases without string literals, with any references between the
\* nodes, the names being placeholders or names of an earlier run.
InitLoop ==
    /\ InitNodes(NumLoopNodes, 0, {"func", "data"})
    /\ xrefs \in UpTo(NodeAddrs \X NodeAddrs, MaxLoopXrefs)
    /\ AtPropagation

NextLoop == TesterLoopSteps

\* buildMarkovModel and the loop of tester, the loop run to its end: the
\* script is one thread, and a step of the loop that can be taken is taken
SpecLoopFair == InitLoop /\ [][NextLoop]_vars /\ WF_vars(TesterWhileSteps)

SpecMain == InitTester /\ [][NextMain]_vars

(***************************************************************************)
(* The claims about safeName, under SpecSafeName.                          *)
(***************************************************************************)
\* the step is a call of safeName
IsCall == call'.n = call.n + 1

\* the i-th candidate of a base name: the base name, then the base name
\* followed by 0, 1, ..
Candidate(baseName, i) ==
    IF i = 1 THEN baseName ELSE baseName \o Str(i - 2)

NumCandidates == NumSuffixes + 1

\* another address holds the name
HeldElsewhere(tbl, addr, n) == \E a \in DOMAIN tbl \ {addr} : tbl[a] = n

\* C1: a call of safeName whose old name is the base name or starts with it
\* changes neither the name table, nor the counter, nor the audit trail, and
\* gives no name to the backend.
C1_NoOpWhenPrefixed ==
    [][ (IsCall /\ (\/ call'.oldName = call'.baseName
                    \/ StartsWith(call'.oldName, call'.baseName)))
        => /\ names' = names
           /\ renamesTotal' = renamesTotal
           /\ audit' = audit
           /\ tried' = <<>> ]_vars

\* a call whose old name is longer than the base name it starts with
C1_Witness ==
    /\ call.n > 0
    /\ call.oldName # call.baseName
    /\ StartsWith(call.oldName, call.baseName)
    /\ tried = <<>>
    /\ Len(audit) > 0

\* C2: a call of safeName that is not a no-op gives the backend the
\* candidates in their order up to the first one no other address holds,
\* names the address with that one, and gives the backend none after it.
C2_FirstFreeCandidate ==
    [][ (IsCall /\ ~(\/ call'.oldName = call'.baseName
                     \/ StartsWith(call'.oldName, call'.baseName)))
        => LET c == call'
               free == {i \in 1..NumCandidates :
                          ~HeldElsewhere(names, c.addr, Candidate(c.baseName, i))}
           IN  IF free = {}
               THEN /\ tried' = [i \in 1..NumCandidates |-> Candidate(c.baseName, i)]
                    /\ names' = names
               ELSE LET k == CHOOSE i \in free : \A j \in free : i <= j
                    IN  /\ tried' = [i \in 1..k |-> Candidate(c.baseName, i)]
                        /\ names' = [names EXCEPT ![c.addr] = Candidate(c.baseName, k)]
      ]_vars

\* a call that was refused the base name and committed the next candidate
C2_Witness ==
    /\ call.n > 0
    /\ Len(tried) = 2
    /\ error = "none"
    /\ names[call.addr] = tried[2]
    /\ HeldElsewhere(names, call.addr, tried[1])

\* C3: no two addresses hold the same non-empty name, whatever safeName
\* calls were made.
C3_NoCollision ==
    \A a, b \in DOMAIN names :
        a # b /\ names[a] # <<>> => names[a] # names[b]

\* two addresses renamed from the same base name
C3_Witness ==
    /\ Len(audit) >= 2
    /\ \E a, b \in DOMAIN names, base \in BaseNames :
          /\ a # b
          /\ StartsWith(names[a], base) /\ StartsWith(names[b], base)
          /\ \E i, j \in 1..Len(audit) :
                i # j /\ audit[i][2] = names[a] /\ audit[j][2] = names[b]

\* C4 (as claimed): in every state the counter is the number of renames
\* committed, which is the number of audit records.
C4_CounterIsCommits ==
    /\ renamesTotal = Len(commits)
    /\ Len(audit) = Len(commits)

(***************************************************************************)
(* The claims about the Markov model, under SpecMarkov.                    *)
(***************************************************************************)
\* the source has exactly two destinations, each of weight 1/2
IsTie(st) ==
    /\ Cardinality(DOMAIN st.edges) = 2
    /\ \A d \in DOMAIN st.edges : 2 * st.edges[d] = st.transistions_total

\* C6: culling at 0.5 leaves a source of two or more destinations at most
\* one edge, but for two destinations of weight 0.5 each, which both stay.
C6_CullKeepsAtMostOne ==
    [][ (pc = "markov" /\ pc' = "culled")
        => \A s \in DOMAIN states :
              Cardinality(DOMAIN states[s].edges) >= 2
              => IF IsTie(states[s])
                 THEN states'[s].edges = states[s].edges
                 ELSE Cardinality(DOMAIN states'[s].edges) <= 1 ]_vars

\* after the cull: a source that kept both edges of a tie, and a source that
\* lost an edge (its edges no longer add up to its total)
C6_Witness ==
    /\ pc = "culled"
    /\ \E s \in DOMAIN states : Cardinality(DOMAIN states[s].edges) = 2
    /\ \E s \in DOMAIN states :
          /\ Cardinality(DOMAIN states[s].edges) = 1
          /\ \E d \in DOMAIN states[s].edges :
                states[s].edges[d] < states[s].transistions_total

\* C7: before the cull every source's total is the sum of its edge counts,
\* and every edge count is at least 1.
C7_TotalIsSumOfEdges ==
    pc = "markov"
    => \A s \in DOMAIN states :
          /\ states[s].transistions_total
                = SumOver(states[s].edges, DOMAIN states[s].edges)
          /\ \A d \in DOMAIN states[s].edges : states[s].edges[d] >= 1

\* a source with two destinations, one of them taken twice
C7_Witness ==
    /\ pc = "markov"
    /\ \E s \in DOMAIN states :
          /\ Cardinality(DOMAIN states[s].edges) >= 2
          /\ \E d \in DOMAIN states[s].edges : states[s].edges[d] >= 2

(***************************************************************************)
(* The claims about the runs.                                              *)
(***************************************************************************)
\* the call is no no-op
Attempts(c) == ~(c.oldName = c.baseName \/ StartsWith(c.oldName, c.baseName))

\* other addresses hold every candidate of the base name
AllHeld(tbl, addr, baseName) ==
    \A i \in 1..NumCandidates : HeldElsewhere(tbl, addr, Candidate(baseName, i))

\* C5: when the backend rejects every candidate, safeName ends the run with
\* its error and the name table as it was before the call (the target not
\* renamed, the earlier renames in place); and after that error no step of
\* tester changes a name, the counter or the audit trail.
C5_ExhaustionStopsRun ==
    [][ /\ (IsCall /\ Attempts(call') /\ AllHeld(names, call'.addr, call'.baseName))
           => /\ pc' = "aborted"
              /\ error' = "RenameFailed"
              /\ names' = names
              /\ audit' = audit
              /\ commits' = commits
        /\ error = "RenameFailed"
           => UNCHANGED <<names, renamesTotal, audit, commits, call>> ]_vars

\* a run that safeName ended, with an earlier rename of the run in place
C5_Witness ==
    /\ pc = "aborted"
    /\ error = "RenameFailed"
    /\ Len(commits) >= 1
    /\ \A i \in 1..Len(commits) : names[commits[i]] # names0[commits[i]]
    /\ names[call.addr] = names0[call.addr]

\* the nodes that were unnamed at the start of the run
Unnamed0 == {a \in NodeAddrs : ~isNamed(names0[a])}

\* the references of the node at a that getXrefs keeps
RefsOf(a) == getXrefs(Thing(a))

\* c is a chain: nodes unnamed at the start, each with the next one as its
\* only qualifying reference, and the last with a node named at the start
IsChain(c) ==
    /\ Len(c) >= 1
    /\ \A i \in 1..Len(c) : c[i] \in Unnamed0
    /\ \A i, j \in 1..Len(c) : i # j => c[i] # c[j]
    /\ \A i \in 1..(Len(c) - 1) : RefsOf(c[i]) = {c[i + 1]}
    /\ \E d \in NodeAddrs \ Unnamed0 : RefsOf(c[Len(c)]) = {d}

\* the chains of the database that take in all its unnamed nodes
Chains ==
    {c \in [1..Cardinality(Unnamed0) -> Unnamed0] : IsChain(c)}

\* how many times safeName has named address a
TimesNamed(a) == Cardinality({i \in 1..Len(commits) : commits[i] = a})

Z_Z_ == <<"z", "_", "z", "_">>

\* C8 (as claimed): in a database whose unnamed nodes are a chain of N, and
\* unless safeName runs out of candidates, main does not end before every
\* node of the chain is named, it ends by the test of its loop, it has named
\* them by the end of pass N (so it begins at most N + 1 passes), it names
\* no node twice and gives no node a name that starts with z_z_.
C8_ChainIsNamed ==
    \A c \in Chains :
        error # "RenameFailed"
        => /\ pc \in {"done", "aborted"}
              => /\ pc = "done"
                 /\ \A i \in 1..Len(c) : isNamed(names[c[i]])
           /\ passes <= Len(c) + 1
           /\ \A i \in 1..Len(c) : TimesNamed(c[i]) <= 1
           /\ \A i \in 1..Len(c) : ~StartsWith(names[c[i]], Z_Z_)

\* a and b are two unnamed nodes that refer to each other and to nothing else
IsTwoCycle(a, b) ==
    /\ a # b
    /\ a \in Unnamed0 /\ b \in Unnamed0
    /\ RefsOf(a) = {b}
    /\ RefsOf(b) = {a}

\* C9 (as claimed), for main: with two unnamed nodes that refer only to each
\* other, the run ends by the test of its loop after one pass, with no
\* change, and neither node is ever renamed.
C9_TwoCycleOnePass ==
    \A a, b \in NodeAddrs :
        IsTwoCycle(a, b)
        => /\ names[a] = names0[a] /\ names[b] = names0[b]
           /\ (pc \in {"done", "aborted"} /\ error # "RenameFailed")
              => pc = "done" /\ passes = 1 /\ changes = 0

\* C9, for tester: the same statement holds of the Markov-guided loop.
C9_TwoCycleOnePassTester ==
    \A a, b \in NodeAddrs :
        IsTwoCycle(a, b) /\ Unnamed0 = {a, b}
        => /\ names[a] = names0[a] /\ names[b] = names0[b]
           /\ (pc \in {"done", "aborted"} /\ error # "RenameFailed")
              => pc = "done" /\ passes = 1 /\ changes = 0

\* the candidates of function f: the links of the literals that have
\* exactly one link, and that one from f
CandidatesOf(f) ==
    {l \in UNION {LinksOf(ea) : ea \in {e \in Strings : Cardinality(LinksOf(e)) = 1}} :
        l[1] = f}

\* C10: once every literal is processed, functionsHash holds for each
\* function that has candidates one of lowest referencing address, in
\* whatever order the literals were processed.
C10_LowestRefAddrKept ==
    pc \in {"apply", "propagate"}
    => \A f \in Functions :
          CandidatesOf(f) # {}
          => /\ f \in DOMAIN functionsHash
             /\ functionsHash[f] \in CandidatesOf(f)
             /\ \A l \in CandidatesOf(f) : functionsHash[f][2] <= l[2]

\* a function with two candidates of different referencing addresses, all
\* literals processed
C10_Witness ==
    /\ pc = "apply"
    /\ \E f \in Functions :
          \E l1, l2 \in CandidatesOf(f) :
              /\ l1[2] < l2[2]
              /\ l1[3] # l2[3]
              /\ functionsHash[f] = l1

(***************************************************************************)
(* SpecSanitize: sanitizeString applied to any string of a few characters  *)
(* (word characters, the characters of a format specification, others),    *)
(* and then to what it returned.                                           *)
(***************************************************************************)
\* the length of the strings sanitizeString is given
MaxStrLen == 4
\* how many times sanitizeString is applied in a row
MaxApplications == 2

SanitizeChars == {"a", "Z", "0", "_", "%", "d", "l", " ", "."}

\* the strings over C of at most n characters
StringsUpTo(C, n) == UNION {[1..k -> C] : k \in 0..n}

InitSanitize ==
    /\ arg \in StringsUpTo(SanitizeChars, MaxStrLen)
    /\ ret = <<>>
    /\ names = <<>>
    /\ pc = "sanitize"
    /\ InitBackend
    /\ InitRun
    /\ NoDatabase

\* sanitizeString(s), s being the argument or the latest result
Sanitize ==
    /\ pc = "sanitize"
    /\ Len(ret) < MaxApplications
    /\ ret' = Append(ret, sanitizeString(IF ret = <<>> THEN arg
                                          ELSE ret[Len(ret)]))
    /\ UNCHANGED <<arg, dbVars, nameVars, pc, runVars>>

NextSanitize == Sanitize

SpecSanitize == InitSanitize /\ [][NextSanitize]_vars

(***************************************************************************)
(* The claims about sanitizeString, under SpecSanitize.                    *)
(***************************************************************************)
\* s holds character c
Holds(s, c) == \E i \in 1..Len(s) : s[i] = c

\* s matches [A-Za-z0-9_]*, with no two underscores in a row and none at
\* either end
IsSanitized(s) ==
    /\ \A i \in 1..Len(s) : s[i] \in WordChars
    /\ \A i \in 1..(Len(s) - 1) : ~(s[i] = "_" /\ s[i + 1] = "_")
    /\ s # <<>> => s[1] # "_" /\ s[Len(s)] # "_"

\* C11: what sanitizeString returns is made of word characters with no
\* doubled, leading or trailing underscore, and sanitizeString applied to
\* it returns it unchanged.
C11_SanitizeIdempotent ==
    /\ \A i \in 1..Len(ret) : IsSanitized(ret[i])
    /\ \A i \in 2..Len(ret) : ret[i] = ret[i - 1]

\* a string with a format specification and other characters, sanitized
\* twice, of which something is left
C11_Witness ==
    /\ pc = "sanitize"
    /\ Len(ret) = 2
    /\ Holds(arg, "%") /\ Holds(arg, " ")
    /\ ret[1] # arg
    /\ Holds(ret[1], "_")

(***************************************************************************)
(* The claims about the propagation loops.                                 *)
(***************************************************************************)
\* the nodes that are unnamed now
Unnamed == {a \in NodeAddrs : ~isNamed(names[a])}

\* the run is in the propagation loop of main, or past it
InMainLoop == pc \in {"mainloop", "data", "funcs", "done"}

\* C12 (as claimed): unless safeName runs out of candidates, main ends by
\* the test of its loop and by nothing else, and it begins no more passes
\* than there are unnamed nodes when the propagation starts, the pass that
\* finds nothing to change apart (main renames nothing in its loop, so the
\* unnamed nodes are those of the start of the propagation throughout).
C12_MainTerminates ==
    /\ pc = "aborted" => error = "RenameFailed"
    /\ InMainLoop => passes <= Cardinality(Unnamed) + 1

\* C13: no step of the run (string passes, Markov-guided loop) takes a
\* node out of the named ones, and every name safeName commits is a named
\* one.
C13_NamedStaysNamed ==
    [][ /\ \A a \in NodeAddrs : isNamed(names[a]) => isNamed(names'[a])
        /\ \A i \in 1..Len(audit') : isNamed(audit'[i][2]) ]_vars

\* the run is over; a node that was named at the start has another name,
\* and a node that was unnamed at the start is named
C13_Witness ==
    /\ pc = "done"
    /\ \E a \in NodeAddrs : isNamed(names0[a]) /\ names[a] # names0[a]
    /\ \E b \in NodeAddrs : ~isNamed(names0[b]) /\ isNamed(names[b])

\* a source of the transition model that is unnamed and has an edge left
\* after the cull to a named destination
PendingSources ==
    {s \in DOMAIN states :
        /\ ~isNamed(Thing(s).name)
        /\ \E d \in DOMAIN states[s].edges : isNamed(Thing(d).name)}

\* C14: when the loop of tester has ended by its test, no unnamed source
\* has an edge to a named destination; and the loop, once begun, ends, by
\* that test or by the error of safeName.
C14_TesterReachesFixedPoint ==
    /\ [](pc = "done" => PendingSources = {})
    /\ (pc = "loop") ~> (pc \in {"done", "aborted"})

\* the loop has ended after a pass that renamed a source of the model and
\* a pass that renamed nothing
C14_Witness ==
    /\ pc = "done"
    /\ passes >= 2
    /\ \E s \in DOMAIN states :
          /\ ~isNamed(names0[s]) /\ isNamed(names[s])
          /\ DOMAIN states[s].edges # {}

(***************************************************************************)
(* The claims about the string passes and the functions they rest on.      *)
(***************************************************************************)
\* the qualifying functions that refer to the literal at ea
QualifyingFuncs(ea) == {l[1] : l \in LinksOf(ea)}

\* C15 (as claimed): once every literal is processed, a function that is
\* the one qualifying function referring to some literal, from however
\* many of its addresses, has a candidate; and every candidate kept is a
\* link of a literal that one qualifying function alone refers to.
C15_OneDistinctFunction ==
    pc = "apply"
    => /\ \A ea \in Strings :
             Cardinality(QualifyingFuncs(ea)) = 1
             => QualifyingFuncs(ea) \subseteq DOMAIN functionsHash
       /\ \A f \in DOMAIN functionsHash :
             \E ea \in Strings : /\ functionsHash[f] \in LinksOf(ea)
                                 /\ QualifyingFuncs(ea) = {f}

(***************************************************************************)
(* SpecStripPrefix: stripExistingPrefix applied to any name of a few       *)
(* characters, among them the characters of the marker.                    *)
(***************************************************************************)
\* the length of the names stripExistingPrefix is given
MaxNameChars == 4

PrefixChars == {"z", "x", "_", "f"}

InitStripPrefix ==
    /\ arg \in StringsUpTo(PrefixChars, MaxNameChars)
    /\ ret = <<>>
    /\ names = <<>>
    /\ pc = "strip"
    /\ InitBackend
    /\ InitRun
    /\ NoDatabase

\* stripExistingPrefix(name)
StripPrefix ==
    /\ pc = "strip"
    /\ ret = <<>>
    /\ ret' = <<stripExistingPrefix(arg)>>
    /\ UNCHANGED <<arg, dbVars, nameVars, pc, runVars>>

NextStripPrefix == StripPrefix

SpecStripPrefix == InitStripPrefix /\ [][NextStripPrefix]_vars

\* the length of the marker of a name that matches ^z.?_ : "z_", or "z",
\* one more character and "_"
MarkerLen(name) == IF name[2] = "_" THEN 2 ELSE 3

\* C16 (as claimed): stripExistingPrefix returns the text after the marker
\* of a name that has one, two characters long or three, and any other
\* name unchanged.
C16_StripsWholeMarker ==
    \A i \in 1..Len(ret) :
        ret[i] = IF AUTONAMED_RE(arg) THEN SliceFrom(arg, MarkerLen(arg))
                 ELSE arg

(***************************************************************************)
(* SpecGetXrefs: Thing.getXrefs applied to the Thing of any node of a      *)
(* database whose cross references leave from any address a node owns and  *)
(* go to any address of the database.                                      *)
(***************************************************************************)
\* the addresses a Thing owns: the items of a function, the one address
\* of a data item
OwnedAddrs(thing) ==
    IF thing.isFunction THEN FuncItems(thing.addr) ELSE {thing.addr}

\* the addresses of the database, from its first node to the end of its
\* last one
AllAddrs == AddrOf(1)..(AddrOf(Cardinality(Nodes)) + DataSize)

InitGetXrefs ==
    /\ InitNodes(NumNodes, NumStrs, {"func", "data"})
    /\ xrefs \in UpTo((UNION {OwnedAddrs(Thing(a)) : a \in NodeAddrs})
                          \X AllAddrs, MaxXrefs)
    /\ pc = "getXrefs"
    /\ arg = <<>>
    /\ ret = <<>>
    /\ InitBackend
    /\ InitRun

\* Thing(addr).getXrefs() for the node at addr
GetXrefs ==
    /\ pc = "getXrefs"
    /\ ret = <<>>
    /\ \E addr \in NodeAddrs :
          /\ arg' = <<addr>>
          /\ ret' = <<getXrefs(Thing(addr))>>
    /\ UNCHANGED <<dbVars, nameVars, pc, runVars>>

NextGetXrefs == GetXrefs

SpecGetXrefs == InitGetXrefs /\ [][NextGetXrefs]_vars

\* the targets of the references that leave from the addresses a Thing owns
OutwardTargets(thing) ==
    UNION {XrefsFrom(fromAddr) : fromAddr \in OwnedAddrs(thing)}

\* C17 (as claimed): getXrefs returns the outward targets t of the node
\* with t < addr or t >= endEA, and those only: none inside [addr, endEA),
\* every one outside it, a target equal to endEA among them.
C17_RefsOutsideHalfOpenRange ==
    \A i \in 1..Len(ret) :
        LET thing == Thing(arg[1])
        IN  ret[i] = {t \in OutwardTargets(thing) :
                         t < thing.addr \/ t >= thing.endEA}

(***************************************************************************)
(* SpecLongStrings: the string passes on a database whose literals may be  *)
(* as long as the longest name fixupIdaStringNames lets through.           *)
(***************************************************************************)
\* a literal of MaxNameLen word characters
LongText == [i \in 1..MaxNameLen |-> "a"]

LongTexts == { <<"m">>, LongText }

InitLongStrings ==
    /\ kind = [i \in 1..(NumStrFuncs + NumStrLits) |->
                  IF i <= NumStrFuncs THEN "func" ELSE "string"]
    /\ text \in {t \in [1..(NumStrFuncs + NumStrLits) -> LongTexts \cup {<<>>}] :
                   \A i \in 1..(NumStrFuncs + NumStrLits) :
                       (t[i] = <<>>) <=> (i <= NumStrFuncs)}
    /\ names \in {t \in [NodeAddrs -> UNION {FirstNamesOf(kind[i], i) : i \in Nodes}] :
                    \A i \in Nodes : t[AddrOf(i)] \in FirstNamesOf(kind[i], i)}
    /\ xrefs \in UpTo((UNION {FuncItems(a) : a \in Functions}) \X Strings,
                      MaxStrXrefs)
    /\ InitPasses

SpecLongStrings == InitLongStrings /\ [][NextStrings]_vars

\* C18 (as claimed): no name the string passes commit, to a literal or to
\* a function, is longer than 256 characters.
C18_NamesAtMost256 ==
    \A i \in 1..Len(audit) : Len(audit[i][2]) <= MaxNameLen

(***************************************************************************)
(* SpecFanOut: the loop of tester on a database of functions and data      *)
(* items with no string literal (the string passes find nothing to do),    *)
(* where one node refers to any of the nodes.  A named node has a name of  *)
(* its own, so that safeName meets no collision.                           *)
(***************************************************************************)
\* the nodes of these databases
NumFanNodes == 4

\* a name a user gave to node i
UserName(i) == <<"n">> \o Str(i)

FanNamesOf(k, i) ==
    IF k = "func" THEN {SubName(AddrOf(i)), UserName(i)}
    ELSE {UnkName(AddrOf(i)), UserName(i)}

InitFanOut ==
    /\ kind \in [1..NumFanNodes -> {"func", "data"}]
    /\ text = [i \in 1..NumFanNodes |-> <<>>]
    /\ names \in {t \in [NodeAddrs -> UNION {FanNamesOf(kind[i], i) : i \in Nodes}] :
                    \A i \in Nodes : t[AddrOf(i)] \in FanNamesOf(kind[i], i)}
    /\ \E src \in NodeAddrs : xrefs \in SUBSET ({src} \X NodeAddrs)
    /\ AtPropagation

NextFanOut == TesterLoopSteps

SpecFanOut == InitFanOut /\ [][NextFanOut]_vars

\* C19 (as claimed): the loop of tester names no address more than once.
C19_SourceRenamedOnce ==
    \A a \in NodeAddrs : TimesNamed(a) <= 1

\* the transition model is built and culled
ModelBuilt == pc \in {"loop", "pass", "done", "aborted"}

\* C20: in the culled model a source has its distinct qualifying
\* references as its total and a count of one on every edge left, so an
\* edge weighs one over their number; a source with three or more of them
\* has no edge left and keeps its name; and a node the loop has renamed has
\* one or two of them.
C20_ThreeRefsNeverRenamed ==
    ModelBuilt
    => /\ \A s \in DOMAIN states :
             /\ states[s].transistions_total = Cardinality(RefsOf(s))
             /\ \A d \in DOMAIN states[s].edges :
                    d \in RefsOf(s) /\ states[s].edges[d] = 1
             /\ Cardinality(RefsOf(s)) >= 3 => DOMAIN states[s].edges = {}
       /\ \A a \in NodeAddrs :
             /\ Cardinality(RefsOf(a)) >= 3 => names[a] = names0[a]
             /\ names[a] # names0[a] => Cardinality(RefsOf(a)) \in {1, 2}

\* the loop is over; an unnamed node with three references, one of them
\* to a named node, still has its name
C20_Witness ==
    /\ pc = "done"
    /\ \E s \in DOMAIN states :
          /\ Cardinality(RefsOf(s)) >= 3
          /\ ~isNamed(names[s])
          /\ \E d \in RefsOf(s) : isNamed(Thing(d).name)

====
